---- MODULE Spec2Model ----
(***************************************************************************)
(* Storage container / table / queue and data-lake file resources of the   *)
(* azurerm provider: the Create / Read / Exists / Delete callbacks, the     *)
(* bounded retry around container creation and the name validators.        *)
(*                                                                         *)
(* One declaration of one resource kind is driven by the host, which calls *)
(* one callback at a time on the ResourceData d it keeps between calls     *)
(* (the local identifier d.Id() and the "name" field).  The storage        *)
(* account and the objects in it can change between two callbacks.         *)
(***************************************************************************)
EXTENDS Integers, Sequences, FiniteSets, TLC

(***************************************************************************)
(* Names.  A name is a sequence of characters; "" is the empty sequence.   *)
(***************************************************************************)
NoId == << >>

\* the name (remote path, for the file) the configuration declares
DeclaredName == <<"a">>

\* a remote name that has the declared name as a proper prefix
LongerName == <<"a", "b">>

\* an unrelated remote name
OtherName == <<"z">>

Names == {DeclaredName, LongerName, OtherName}

Kinds == {"container", "table", "queue", "file"}

\* strings.HasPrefix, as the service applies the Prefix parameter of a listing
HasPrefix(s, prefix) ==
    /\ Len(prefix) <= Len(s)
    /\ SubSeq(s, 1, Len(prefix)) = prefix

(***************************************************************************)
(* The remote store.  objects[n] tells what the account holds under n:     *)
(*   "none"     nothing                                                    *)
(*   "foreign"  an object somebody else created (its content is theirs)    *)
(*   "bare"     a container this provider created, permissions not yet set *)
(*   "managed"  an object this provider created completely                 *)
(***************************************************************************)
Contents == {"none", "foreign", "bare", "managed"}

NoObjects == [n \in Names |-> "none"]

Present(objects, n) == n \in Names /\ objects[n] # "none"

\* what an operation returns: the new ResourceData, the new remote store, the
\* error ("nil" for none), the boolean of Exists, and the remote calls issued
Out(d, objects, err, ret, calls) ==
    [d |-> d, objects |-> objects, err |-> err, ret |-> ret, calls |-> calls,
     attempts |-> << >>, retryEnd |-> 0]

SetId(d, v) == [d EXCEPT !.id = v]

\* the ResourceData of a declaration not created yet: no identifier, the
\* fields as the configuration gives them
Declared ==
    [id |-> NoId, name |-> DeclaredName, resource_group_name |-> "group",
     storage_account_name |-> "account"]

(***************************************************************************)
(* Client resolver: (client, accountExists, error).  fault = "resolve" is  *)
(* a transport / auth failure of the lookup.                               *)
(***************************************************************************)
getClientForStorageAccount(env, in) ==
    IF in.fault = "resolve"
    THEN [err |-> TRUE, accountExists |-> FALSE]
    ELSE [err |-> FALSE, accountExists |-> env.accountExists]

(***************************************************************************)
(* Bounded retry around container creation.                                 *)
(***************************************************************************)
\* resource.Retry(120*time.Second, ...)
RetryTimeout == 120

\* seconds from the start of one attempt to the start of the next
Backoffs == {40, 60}

\* the most failed attempts an input asks for before the first success
MaxFails == 3

\* reference.CreateIfNotExists: the attempt number n succeeds when the input
\* says so; a success creates the container unless it is already there
CreateIfNotExists(objects, name, ok) ==
    IF ok /\ ~Present(objects, name)
    THEN [objects EXCEPT ![name] = "bare"]
    ELSE objects

checkContainerIsCreatedNonRetryable(ok) ==
    IF ok THEN "nil" ELSE "NonRetryableError"

\* the RetryFunc: every error of CreateIfNotExists is wrapped as retryable
checkContainerIsCreated(ok) ==
    IF ok THEN "nil" ELSE "RetryableError"

\* resource.Retry: attempts start while the budget has not expired; nil ends
\* the loop with success, a non-retryable error ends it at once, a retryable
\* one is followed by the next attempt after a backoff
RECURSIVE Retry(_, _, _, _, _, _)
Retry(t, n, objects, name, in, attempts) ==
    IF t >= RetryTimeout
    THEN [err |-> "timeout", objects |-> objects, attempts |-> attempts, retryEnd |-> t]
    ELSE LET ok  == (n = in.failsBefore)
             r   == checkContainerIsCreated(ok)
             obj == CreateIfNotExists(objects, name, ok)
             att == Append(attempts, [start |-> t, ok |-> ok])
         IN  IF r = "nil"
             THEN [err |-> "nil", objects |-> obj, attempts |-> att, retryEnd |-> t]
             ELSE IF r = "RetryableError"
             THEN Retry(t + in.backoff, n + 1, obj, name, in, att)
             ELSE [err |-> "error", objects |-> obj, attempts |-> att, retryEnd |-> t]

(***************************************************************************)
(* Storage container                                                       *)
(***************************************************************************)
resourceArmStorageContainerRead(d, env, in) ==
    LET c == getClientForStorageAccount(env, in)
        name == d.name
        \* ListContainers with Prefix: name
        containers == {n \in Names : Present(env.objects, n) /\ HasPrefix(n, name)}
        found == \E cont \in containers : cont = name
    IN  IF c.err THEN Out(d, env.objects, "ResolverError", FALSE, <<>>)
        ELSE IF ~c.accountExists THEN Out(SetId(d, NoId), env.objects, "nil", FALSE, <<>>)
        ELSE IF in.fault = "query"
        THEN Out(d, env.objects, "QueryError", FALSE, <<"ListContainers">>)
        ELSE IF ~found
        THEN Out(SetId(d, NoId), env.objects, "nil", FALSE, <<"ListContainers">>)
        ELSE Out(d, env.objects, "nil", FALSE, <<"ListContainers">>)

\* the input of the Read called at the end of Create: its own faults
ReadInput(in) ==
    [in EXCEPT !.fault = CASE in.fault = "readResolve" -> "resolve"
                           [] in.fault = "readQuery"   -> "query"
                           [] OTHER                    -> "none"]

resourceArmStorageContainerCreateIdBeforePermissions(d, env, in) ==
    LET c == getClientForStorageAccount(env, in)
        name == d.name
        exists == Present(env.objects, name)
        rt == Retry(0, 0, env.objects, name, in, << >>)
        creates == [i \in 1..Len(rt.attempts) |-> "CreateIfNotExists"]
        withPerms == [rt.objects EXCEPT ![name] = "managed"]
        rd == resourceArmStorageContainerRead(SetId(d, name),
                  [env EXCEPT !.objects = withPerms], ReadInput(in))
        WithRetry(o) == [o EXCEPT !.attempts = rt.attempts, !.retryEnd = rt.retryEnd]
    IN  IF c.err THEN Out(d, env.objects, "ResolverError", FALSE, <<>>)
        ELSE IF ~c.accountExists
        THEN Out(d, env.objects, "AccountNotFound", FALSE, <<>>)
        ELSE IF in.fault = "query"
        THEN Out(d, env.objects, "QueryError", FALSE, <<"Exists">>)
        ELSE IF exists
        THEN Out(d, env.objects, "ImportAsExists", FALSE, <<"Exists">>)
        ELSE IF rt.err # "nil"
        THEN WithRetry(Out(d, rt.objects, "CreateError", FALSE, <<"Exists">> \o creates))
        ELSE IF in.fault = "perm"
        THEN WithRetry(Out(SetId(d, name), rt.objects, "PermissionsError", FALSE,
                           <<"Exists">> \o creates \o <<"SetPermissions">>))
        ELSE WithRetry([rd EXCEPT !.calls =
                           <<"Exists">> \o creates \o <<"SetPermissions">> \o rd.calls])

resourceArmStorageContainerCreate(d, env, in) ==
    LET c == getClientForStorageAccount(env, in)
        name == d.name
        exists == Present(env.objects, name)
        rt == Retry(0, 0, env.objects, name, in, << >>)
        creates == [i \in 1..Len(rt.attempts) |-> "CreateIfNotExists"]
        \* reference.SetPermissions
        withPerms == [rt.objects EXCEPT ![name] = "managed"]
        rd == resourceArmStorageContainerRead(SetId(d, name),
                  [env EXCEPT !.objects = withPerms], ReadInput(in))
        WithRetry(o) == [o EXCEPT !.attempts = rt.attempts, !.retryEnd = rt.retryEnd]
    IN  IF c.err THEN Out(d, env.objects, "ResolverError", FALSE, <<>>)
        ELSE IF ~c.accountExists
        THEN Out(d, env.objects, "AccountNotFound", FALSE, <<>>)
        ELSE IF in.fault = "query"
        THEN Out(d, env.objects, "QueryError", FALSE, <<"Exists">>)
        ELSE IF exists
        THEN Out(d, env.objects, "ImportAsExists", FALSE, <<"Exists">>)
        ELSE IF rt.err # "nil"
        THEN WithRetry(Out(d, rt.objects, "CreateError", FALSE, <<"Exists">> \o creates))
        ELSE IF in.fault = "perm"
        THEN WithRetry(Out(d, rt.objects, "PermissionsError", FALSE,
                           <<"Exists">> \o creates \o <<"SetPermissions">>))
        ELSE WithRetry([rd EXCEPT !.calls =
                           <<"Exists">> \o creates \o <<"SetPermissions">> \o rd.calls])

resourceArmStorageContainerExists(d, env, in) ==
    LET c == getClientForStorageAccount(env, in)
        name == d.name
        exists == Present(env.objects, name)
    IN  IF c.err THEN Out(d, env.objects, "ResolverError", FALSE, <<>>)
        ELSE IF ~c.accountExists THEN Out(SetId(d, NoId), env.objects, "nil", FALSE, <<>>)
        ELSE IF in.fault = "query"
        THEN Out(d, env.objects, "QueryError", FALSE, <<"Exists">>)
        ELSE IF ~exists
        THEN Out(SetId(d, NoId), env.objects, "nil", FALSE, <<"Exists">>)
        ELSE Out(d, env.objects, "nil", TRUE, <<"Exists">>)

resourceArmStorageContainerDeleteFailsWithoutAccount(d, env, in) ==
    LET c == getClientForStorageAccount(env, in)
        name == d.name
    IN  IF c.err THEN Out(d, env.objects, "ResolverError", FALSE, <<>>)
        ELSE IF ~c.accountExists
        THEN Out(d, env.objects, "AccountNotFound", FALSE, <<>>)
        ELSE IF in.fault = "delete"
        THEN Out(d, env.objects, "DeleteError", FALSE, <<"DeleteIfExists">>)
        ELSE Out(d, [env.objects EXCEPT ![name] = "none"], "nil", FALSE,
                 <<"DeleteIfExists">>)

resourceArmStorageContainerDelete(d, env, in) ==
    LET c == getClientForStorageAccount(env, in)
        name == d.name
    IN  IF c.err THEN Out(d, env.objects, "ResolverError", FALSE, <<>>)
        ELSE IF ~c.accountExists THEN Out(d, env.objects, "nil", FALSE, <<>>)
        ELSE IF in.fault = "delete"
        THEN Out(d, env.objects, "DeleteError", FALSE, <<"DeleteIfExists">>)
        \* DeleteIfExists: a missing container is (false, nil)
        ELSE Out(d, [env.objects EXCEPT ![name] = "none"], "nil", FALSE,
                 <<"DeleteIfExists">>)

(***************************************************************************)
(* Storage table                                                           *)
(***************************************************************************)
\* tableClient.QueryTables: the tables of the account, in the order the
\* service lists them (in.order is that order over all names)
QueryTables(objects, in) ==
    SelectSeq(in.order, LAMBDA n : Present(objects, n))

MatchedTableFirstOnly(tables, name) ==
    IF Len(tables) > 0 /\ tables[1] = name
    THEN [isNil |-> FALSE, Name |-> tables[Len(tables)]]
    ELSE [isNil |-> TRUE, Name |-> NoId]

\* for _, t := range tables.Tables { if t.Name == name { table = &t } }
\* t is one variable for the whole loop: after the loop a non-nil table
\* points at t, which holds the last table of the listing
MatchedTable(tables, name) ==
    IF \E i \in 1..Len(tables) : tables[i] = name
    THEN [isNil |-> FALSE, Name |-> tables[Len(tables)]]
    ELSE [isNil |-> TRUE, Name |-> NoId]

resourceArmStorageTableRead(d, env, in) ==
    LET c == getClientForStorageAccount(env, in)
        name == d.name
        tables == QueryTables(env.objects, in)
        table == MatchedTable(tables, name)
    IN  IF c.err THEN Out(d, env.objects, "ResolverError", FALSE, <<>>)
        ELSE IF ~c.accountExists THEN Out(SetId(d, NoId), env.objects, "nil", FALSE, <<>>)
        ELSE IF in.fault = "query"
        THEN Out(d, env.objects, "QueryError", FALSE, <<"QueryTables">>)
        ELSE IF table.isNil
        THEN Out(SetId(d, NoId), env.objects, "nil", FALSE, <<"QueryTables">>)
        \* d.Set("name", table.Name)
        ELSE Out([d EXCEPT !.name = table.Name], env.objects, "nil", FALSE,
                 <<"QueryTables">>)

TableNeedsImportFirstOnly(tables, name) ==
    Len(tables) > 0 /\ tables[1] = name

\* for _, t := range tables.Tables { if t.Name == name { return ImportAsExistsError } }
TableNeedsImport(tables, name) ==
    \E i \in 1..Len(tables) : tables[i] = name

resourceArmStorageTableCreate(d, env, in) ==
    LET c == getClientForStorageAccount(env, in)
        name == d.name
        tables == QueryTables(env.objects, in)
        exists == TableNeedsImport(tables, name)
        created == [env.objects EXCEPT ![name] = "managed"]
        rd == resourceArmStorageTableRead(SetId(d, name),
                  [env EXCEPT !.objects = created], ReadInput(in))
    IN  IF c.err THEN Out(d, env.objects, "ResolverError", FALSE, <<>>)
        ELSE IF ~c.accountExists
        THEN Out(d, env.objects, "AccountNotFound", FALSE, <<>>)
        ELSE IF in.fault = "query"
        THEN Out(d, env.objects, "QueryError", FALSE, <<"QueryTables">>)
        ELSE IF exists
        THEN Out(d, env.objects, "ImportAsExists", FALSE, <<"QueryTables">>)
        ELSE IF in.fault = "create"
        THEN Out(d, env.objects, "CreateError", FALSE, <<"QueryTables", "Create">>)
        ELSE [rd EXCEPT !.calls = <<"QueryTables", "Create">> \o rd.calls]

resourceArmStorageTableDelete(d, env, in) ==
    LET c == getClientForStorageAccount(env, in)
        name == d.name
    IN  IF c.err THEN Out(d, env.objects, "ResolverError", FALSE, <<>>)
        ELSE IF ~c.accountExists THEN Out(d, env.objects, "nil", FALSE, <<>>)
        \* table.Delete answers a missing table with an error (404)
        ELSE IF in.fault = "delete" \/ ~Present(env.objects, name)
        THEN Out(d, env.objects, "DeleteError", FALSE, <<"Delete">>)
        ELSE Out(d, [env.objects EXCEPT ![name] = "none"], "nil", FALSE, <<"Delete">>)

(***************************************************************************)
(* Storage queue                                                           *)
(***************************************************************************)
resourceArmStorageQueueExistsKeepsId(d, env, in) ==
    LET c == getClientForStorageAccount(env, in)
        name == d.name
        exists == Present(env.objects, name)
    IN  IF c.err THEN Out(d, env.objects, "ResolverError", FALSE, <<>>)
        ELSE IF ~c.accountExists THEN Out(SetId(d, NoId), env.objects, "nil", FALSE, <<>>)
        ELSE IF in.fault = "query"
        THEN Out(d, env.objects, "QueryError", FALSE, <<"Exists">>)
        ELSE Out(d, env.objects, "nil", exists, <<"Exists">>)

resourceArmStorageQueueExists(d, env, in) ==
    LET c == getClientForStorageAccount(env, in)
        name == d.name
        exists == Present(env.objects, name)
    IN  IF c.err THEN Out(d, env.objects, "ResolverError", FALSE, <<>>)
        ELSE IF ~c.accountExists THEN Out(SetId(d, NoId), env.objects, "nil", FALSE, <<>>)
        ELSE IF in.fault = "query"
        THEN Out(d, env.objects, "QueryError", FALSE, <<"Exists">>)
        ELSE IF ~exists
        THEN Out(SetId(d, NoId), env.objects, "nil", FALSE, <<"Exists">>)
        ELSE Out(d, env.objects, "nil", TRUE, <<"Exists">>)

resourceArmStorageQueueRead(d, env, in) ==
    LET e == resourceArmStorageQueueExists(d, env, in)
    IN  \* Read returns the error of Exists and nothing else
        [e EXCEPT !.ret = FALSE]

resourceArmStorageQueueCreateIdFirst(d, env, in) ==
    LET c == getClientForStorageAccount(env, in)
        name == d.name
        exists == Present(env.objects, name)
        created == [env.objects EXCEPT ![name] = "managed"]
        rd == resourceArmStorageQueueRead(SetId(d, name),
                  [env EXCEPT !.objects = created], ReadInput(in))
    IN  IF c.err THEN Out(d, env.objects, "ResolverError", FALSE, <<>>)
        ELSE IF ~c.accountExists
        THEN Out(d, env.objects, "AccountNotFound", FALSE, <<>>)
        ELSE IF in.fault = "query"
        THEN Out(d, env.objects, "QueryError", FALSE, <<"Exists">>)
        ELSE IF exists
        THEN Out(d, env.objects, "ImportAsExists", FALSE, <<"Exists">>)
        ELSE IF in.fault = "create"
        THEN Out(SetId(d, name), env.objects, "CreateError", FALSE, <<"Exists", "Create">>)
        ELSE [rd EXCEPT !.calls = <<"Exists", "Create">> \o rd.calls]

resourceArmStorageQueueCreate(d, env, in) ==
    LET c == getClientForStorageAccount(env, in)
        name == d.name
        exists == Present(env.objects, name)
        created == [env.objects EXCEPT ![name] = "managed"]
        rd == resourceArmStorageQueueRead(SetId(d, name),
                  [env EXCEPT !.objects = created], ReadInput(in))
    IN  IF c.err THEN Out(d, env.objects, "ResolverError", FALSE, <<>>)
        ELSE IF ~c.accountExists
        THEN Out(d, env.objects, "AccountNotFound", FALSE, <<>>)
        ELSE IF in.fault = "query"
        THEN Out(d, env.objects, "QueryError", FALSE, <<"Exists">>)
        ELSE IF exists
        THEN Out(d, env.objects, "ImportAsExists", FALSE, <<"Exists">>)
        ELSE IF in.fault = "create"
        THEN Out(d, env.objects, "CreateError", FALSE, <<"Exists", "Create">>)
        ELSE [rd EXCEPT !.calls = <<"Exists", "Create">> \o rd.calls]

resourceArmStorageQueueDelete(d, env, in) ==
    LET c == getClientForStorageAccount(env, in)
        name == d.name
    IN  IF c.err THEN Out(d, env.objects, "ResolverError", FALSE, <<>>)
        ELSE IF ~c.accountExists THEN Out(d, env.objects, "nil", FALSE, <<>>)
        \* queueReference.Delete answers a missing queue with an error (404)
        ELSE IF in.fault = "delete" \/ ~Present(env.objects, name)
        THEN Out(d, env.objects, "DeleteError", FALSE, <<"Delete">>)
        ELSE Out(d, [env.objects EXCEPT ![name] = "none"], "nil", FALSE, <<"Delete">>)

(***************************************************************************)
(* Data-lake store file.  There is no client resolver: a call to an        *)
(* account that does not exist fails, and not with a not-found response.   *)
(***************************************************************************)
resourceArmDataLakeStoreFileRead(d, env, in) ==
    LET remoteFilePath == d.id
    IN  \* client.GetFileStatus
        IF in.fault = "query" \/ ~env.accountExists
        THEN Out(d, env.objects, "QueryError", FALSE, <<"GetFileStatus">>)
        ELSE IF ~Present(env.objects, remoteFilePath)
        THEN Out(SetId(d, NoId), env.objects, "nil", FALSE, <<"GetFileStatus">>)
        ELSE Out(d, env.objects, "nil", FALSE, <<"GetFileStatus">>)

resourceArmDataLakeStoreFileCreate(d, env, in) ==
    LET remoteFilePath == d.name
        created == [env.objects EXCEPT ![remoteFilePath] = "managed"]
        rd == resourceArmDataLakeStoreFileRead(SetId(d, remoteFilePath),
                  [env EXCEPT !.objects = created], ReadInput(in))
    IN  \* os.Open / ioutil.ReadAll of the local file
        IF in.fault = "open" THEN Out(d, env.objects, "OpenError", FALSE, <<>>)
        \* client.Create with overwrite = false: an existing file is an error
        ELSE IF \/ in.fault = "create"
                \/ ~env.accountExists
                \/ Present(env.objects, remoteFilePath)
        THEN Out(d, env.objects, "CreateError", FALSE, <<"Create">>)
        ELSE [rd EXCEPT !.calls = <<"Create">> \o rd.calls]

resourceArmDataLakeStoreFileDelete(d, env, in) ==
    LET remoteFilePath == d.id
    IN  \* client.Delete; a not-found response is success
        IF in.fault = "delete" \/ ~env.accountExists
        THEN Out(d, env.objects, "DeleteError", FALSE, <<"Delete">>)
        ELSE IF ~Present(env.objects, remoteFilePath)
        THEN Out(d, env.objects, "nil", FALSE, <<"Delete">>)
        ELSE Out(d, [env.objects EXCEPT ![remoteFilePath] = "none"], "nil", FALSE,
                 <<"Delete">>)

(***************************************************************************)
(* Name validators.  A value is a sequence of characters; MultiByte is a   *)
(* character that takes two bytes, every other one takes one (len(value)   *)
(* counts bytes, a regular expression matches characters).                 *)
(***************************************************************************)
MultiByte == "U+00E9"

Lower == {"a", "b", "e", "l", "o", "r", "t"}

Upper == {"A"}

Digit == {"0"}

Hyphen == "-"

RootName == <<"$", "r", "o", "o", "t">>

TableWord == <<"t", "a", "b", "l", "e">>

MinLength == 3

MaxLength == 63

\* len(value)
ByteLen(value) ==
    Len(value) + Cardinality({i \in 1..Len(value) : value[i] = MultiByte})

\* ^[class]+$
MatchesOneOrMore(value, class) ==
    /\ Len(value) >= 1
    /\ \A i \in 1..Len(value) : value[i] \in class

\* ^-
MatchesLeadingHyphen(value) == Len(value) >= 1 /\ value[1] = Hyphen

\* -$
MatchesTrailingHyphen(value) == Len(value) >= 1 /\ value[Len(value)] = Hyphen

\* ^[A-Za-z][A-Za-z0-9]{2,62}$
MatchesTableName(value) ==
    /\ Len(value) >= 1
    /\ value[1] \in Lower \cup Upper
    /\ Len(value) - 1 >= MinLength - 1
    /\ Len(value) - 1 <= MaxLength - 1
    /\ \A i \in 2..Len(value) : value[i] \in Lower \cup Upper \cup Digit

\* errors = append(errors, ...) when the condition holds
ErrorIf(cond, message) == IF cond THEN <<message>> ELSE << >>

validateArmStorageContainerName(value) ==
    ErrorIf(~(value = RootName \/ MatchesOneOrMore(value, Digit \cup Lower \cup {Hyphen})),
            "charset")
    \o ErrorIf(ByteLen(value) < MinLength \/ ByteLen(value) > MaxLength, "length")
    \o ErrorIf(MatchesLeadingHyphen(value), "leadingHyphen")

validateArmStorageQueueNameOffByOne(value) ==
    ErrorIf(~MatchesOneOrMore(value, Lower \cup Digit \cup {Hyphen}), "charset")
    \o ErrorIf(MatchesLeadingHyphen(value), "leadingHyphen")
    \o ErrorIf(MatchesTrailingHyphen(value), "trailingHyphen")
    \o ErrorIf(ByteLen(value) > MaxLength, "tooLong")
    \o ErrorIf(ByteLen(value) <= MinLength, "tooShort")

validateArmStorageQueueName(value) ==
    ErrorIf(~MatchesOneOrMore(value, Lower \cup Digit \cup {Hyphen}), "charset")
    \o ErrorIf(MatchesLeadingHyphen(value), "leadingHyphen")
    \o ErrorIf(MatchesTrailingHyphen(value), "trailingHyphen")
    \o ErrorIf(ByteLen(value) > MaxLength, "tooLong")
    \o ErrorIf(ByteLen(value) < MinLength, "tooShort")

validateArmStorageTableName(value) ==
    ErrorIf(value = TableWord, "reservedWord")
    \o ErrorIf(~MatchesTableName(value), "format")

(***************************************************************************)
(* The host and the world around the account                               *)
(***************************************************************************)
VARIABLES
    kind,       \* the resource kind of the declaration
    d,          \* the ResourceData the host keeps: [id, name]
    env,        \* the remote side: [accountExists, objects]
    last,       \* the last callback: its input, the state before it, its result
    prev,       \* what happened before the last callback: [op, err]
    value,      \* the string handed to a name validator
    validator,  \* the validator that ran last
    errors      \* the messages it returned

vars == <<kind, d, env, last, prev, value, validator, errors>>

resVars == <<kind, d, env, last, prev>>

valVars == <<value, validator, errors>>

\* the orders in which the table service can list the names
Orders == {o \in [1..Cardinality(Names) -> Names] : \A i, j \in DOMAIN o : o[i] = o[j] => i = j}

DefaultOrder == <<DeclaredName, LongerName, OtherName>>

NoInput == [fault |-> "none", failsBefore |-> 0, backoff |-> 0, order |-> DefaultOrder]

CreateFaults(k) ==
    CASE k = "container" -> {"none", "resolve", "query", "perm", "readResolve", "readQuery"}
      [] k = "file"      -> {"none", "open", "create", "readQuery"}
      [] OTHER           -> {"none", "resolve", "query", "create", "readResolve", "readQuery"}

QueryFaults(k) == IF k = "file" THEN {"none", "query"} ELSE {"none", "resolve", "query"}

DeleteFaults(k) == IF k = "file" THEN {"none", "delete"} ELSE {"none", "resolve", "delete"}

OrdersOf(k) == IF k = "table" THEN Orders ELSE {DefaultOrder}

CreateInputs(k) ==
    {[fault |-> f, failsBefore |-> n, backoff |-> b, order |-> o] :
        f \in CreateFaults(k),
        n \in (IF k = "container" THEN 0..MaxFails ELSE {0}),
        b \in (IF k = "container" THEN Backoffs ELSE {0}),
        o \in OrdersOf(k)}

QueryInputs(k) ==
    {[NoInput EXCEPT !.fault = f, !.order = o] : f \in QueryFaults(k), o \in OrdersOf(k)}

DeleteInputs(k) == {[NoInput EXCEPT !.fault = f] : f \in DeleteFaults(k)}

\* the schema.Resource of each kind: which function the host calls
CreateOf(k, dd, e, in) ==
    CASE k = "container" -> resourceArmStorageContainerCreate(dd, e, in)
      [] k = "table"     -> resourceArmStorageTableCreate(dd, e, in)
      [] k = "queue"     -> resourceArmStorageQueueCreate(dd, e, in)
      [] k = "file"      -> resourceArmDataLakeStoreFileCreate(dd, e, in)

ReadOf(k, dd, e, in) ==
    CASE k = "container" -> resourceArmStorageContainerRead(dd, e, in)
      [] k = "table"     -> resourceArmStorageTableRead(dd, e, in)
      [] k = "queue"     -> resourceArmStorageQueueRead(dd, e, in)
      [] k = "file"      -> resourceArmDataLakeStoreFileRead(dd, e, in)

ExistsOf(k, dd, e, in) ==
    CASE k = "container" -> resourceArmStorageContainerExists(dd, e, in)
      [] k = "queue"     -> resourceArmStorageQueueExists(dd, e, in)

DeleteOf(k, dd, e, in) ==
    CASE k = "container" -> resourceArmStorageContainerDelete(dd, e, in)
      [] k = "table"     -> resourceArmStorageTableDelete(dd, e, in)
      [] k = "queue"     -> resourceArmStorageQueueDelete(dd, e, in)
      [] k = "file"      -> resourceArmDataLakeStoreFileDelete(dd, e, in)

NoCall == [op |-> "none", in |-> NoInput, d |-> Declared,
           env |-> [accountExists |-> FALSE, objects |-> NoObjects],
           err |-> "nil", ret |-> FALSE, calls |-> << >>, attempts |-> << >>,
           retryEnd |-> 0]

\* the host has run callback o with input in on dd, and r came back
Called(o, in, dd, r) ==
    /\ d' = r.d
    /\ env' = [env EXCEPT !.objects = r.objects]
    /\ last' = [op |-> o, in |-> in, d |-> dd, env |-> env, err |-> r.err,
                ret |-> r.ret, calls |-> r.calls, attempts |-> r.attempts,
                retryEnd |-> r.retryEnd]
    /\ prev' = [op |-> last.op, err |-> last.err]
    /\ UNCHANGED <<kind, valVars>>

Init ==
    /\ kind \in Kinds
    /\ d = Declared
    /\ \E a \in BOOLEAN, o \in [Names -> {"none", "foreign"}] :
          env = [accountExists |-> a, objects |-> IF a THEN o ELSE NoObjects]
    /\ last = NoCall
    /\ prev = [op |-> "none", err |-> "nil"]
    /\ value = << >>
    /\ validator = "none"
    /\ errors = << >>

\* Create runs on a declaration without identifier, its fields set from the
\* configuration
Create ==
    /\ d.id = NoId
    /\ \E in \in CreateInputs(kind) :
          LET dd == Declared
          IN  Called("Create", in, dd, CreateOf(kind, dd, env, in))

Read ==
    /\ d.id # NoId
    /\ \E in \in QueryInputs(kind) : Called("Read", in, d, ReadOf(kind, d, env, in))

Exists ==
    /\ d.id # NoId
    /\ kind \in {"container", "queue"}
    /\ \E in \in QueryInputs(kind) : Called("Exists", in, d, ExistsOf(kind, d, env, in))

Delete ==
    /\ d.id # NoId
    /\ \E in \in DeleteInputs(kind) : Called("Delete", in, d, DeleteOf(kind, d, env, in))

\* after a Delete that returned nil the host drops the record
HostDropsRecord ==
    /\ last.op = "Delete"
    /\ last.err = "nil"
    /\ d.id # NoId
    /\ d' = SetId(d, NoId)
    /\ last' = [NoCall EXCEPT !.op = "drop"]
    /\ prev' = [op |-> last.op, err |-> last.err]
    /\ UNCHANGED <<kind, env, valVars>>

\* somebody else creates, replaces or removes an object of the account
ObjectChanges ==
    /\ env.accountExists
    /\ \E n \in Names, c \in {"none", "foreign"} :
          /\ env.objects[n] # c
          /\ env' = [env EXCEPT !.objects[n] = c]
    /\ last' = [NoCall EXCEPT !.op = "world"]
    /\ prev' = [op |-> last.op, err |-> last.err]
    /\ UNCHANGED <<kind, d, valVars>>

\* the storage account is removed (with all it holds) or created
AccountChanges ==
    /\ env' = [accountExists |-> ~env.accountExists, objects |-> NoObjects]
    /\ last' = [NoCall EXCEPT !.op = "world"]
    /\ prev' = [op |-> last.op, err |-> last.err]
    /\ UNCHANGED <<kind, d, valVars>>

Next ==
    \/ Create
    \/ Read
    \/ Exists
    \/ Delete
    \/ HostDropsRecord
    \/ ObjectChanges
    \/ AccountChanges

Spec == Init /\ [][Next]_vars

(***************************************************************************)
(* The validators on their own: the host hands a configured name to the    *)
(* ValidateFunc of the field, any number of times.                         *)
(***************************************************************************)
\* the longest run of filler characters in a tried name
MaxFill == 64

Alphabet == {"a", "0", Hyphen, "A", "$", "_", MultiByte}

Ends == {<< >>} \cup {<<c>> : c \in Alphabet}

Fill(k) == [i \in 1..k |-> "a"]

\* the names tried: up to one character of any kind at each end of a run of
\* lowercase letters, and the two literal names the rules mention
Inputs ==
    {h \o Fill(k) \o t : h \in Ends, k \in 0..MaxFill, t \in Ends}
    \cup {RootName, TableWord}

InitValidate ==
    /\ kind = "container"
    /\ d = Declared
    /\ env = [accountExists |-> FALSE, objects |-> NoObjects]
    /\ last = NoCall
    /\ prev = [op |-> "none", err |-> "nil"]
    /\ value \in Inputs
    /\ validator = "none"
    /\ errors = << >>

ValidateContainer ==
    /\ validator' = "container"
    /\ errors' = validateArmStorageContainerName(value)
    /\ UNCHANGED <<resVars, value>>

ValidateQueue ==
    /\ validator' = "queue"
    /\ errors' = validateArmStorageQueueName(value)
    /\ UNCHANGED <<resVars, value>>

ValidateTable ==
    /\ validator' = "table"
    /\ errors' = validateArmStorageTableName(value)
    /\ UNCHANGED <<resVars, value>>

NextValidate ==
    \/ ValidateContainer
    \/ ValidateQueue
    \/ ValidateTable

SpecValidate == InitValidate /\ [][NextValidate]_vars

(***************************************************************************)
(* Properties of the callbacks                                             *)
(***************************************************************************)
Issued(call) == \E i \in 1..Len(last.calls) : last.calls[i] = call

\* the last callback ran against an existing account that held (or not) an
\* object under the declared name
HadAccount == last.env.accountExists

HadObject == Present(last.env.objects, DeclaredName)

\* the trailing Read of the last Create is what failed
TrailingReadFailed ==
    /\ last.op = "Create"
    /\ last.err \in {"ResolverError", "QueryError"}
    /\ last.in.fault \in {"readResolve", "readQuery"}

\* C1: container, table and queue Create on an account that already holds an
\* object of the declared name issues no create / create-if-not-exists /
\* set-permissions call, leaves the remote store as it was and the local
\* identifier empty, and returns an error, which is the import-as-exists
\* error whenever the resolver and the existence check themselves answer.
C1_CreateOnExistingIsImportError ==
    (/\ last.op = "Create"
     /\ kind \in {"container", "table", "queue"}
     /\ HadAccount
     /\ HadObject)
    => /\ ~Issued("Create")
       /\ ~Issued("CreateIfNotExists")
       /\ ~Issued("SetPermissions")
       /\ env.objects = last.env.objects
       /\ d.id = NoId
       /\ last.err # "nil"
       /\ last.in.fault \notin {"resolve", "query"} => last.err = "ImportAsExists"

C1_Witness ==
    /\ last.op = "Create"
    /\ kind = "table"
    /\ HadAccount
    /\ HadObject
    /\ last.env.objects[OtherName] = "foreign"
    /\ last.err = "ImportAsExists"

\* C2 as stated: whenever Create returns an error the local identifier is
\* empty, also when it is the Read at the end of Create that fails.
C2_CreateErrorLeavesIdEmpty ==
    (last.op = "Create" /\ last.err # "nil") => d.id = NoId

\* C2, amended: when Create returns an error the local identifier is empty,
\* unless the error is that of the Read at the end of Create: then the remote
\* object has been created and the identifier is the declared name.
C2_CreateErrorIdEmptyUnlessReadFailed ==
    (last.op = "Create" /\ last.err # "nil")
    => IF TrailingReadFailed
       THEN d.id = DeclaredName /\ Present(env.objects, DeclaredName)
       ELSE d.id = NoId

C2_Witness ==
    /\ TrailingReadFailed
    /\ kind = "queue"
    /\ d.id = DeclaredName

\* C3: a Create that returns nil leaves the identifier equal to the declared
\* name, and a Read that follows at once, the remote unchanged and its calls
\* succeeding, returns nil and leaves it so.
C3_CreateThenReadPresent ==
    /\ (last.op = "Create" /\ last.err = "nil")
       => d.id = DeclaredName /\ d.id # NoId
    /\ (/\ last.op = "Read"
        /\ prev.op = "Create"
        /\ prev.err = "nil"
        /\ last.in.fault = "none")
       => /\ last.err = "nil"
          /\ d.id = DeclaredName
          /\ d.id # NoId

C3_Witness ==
    /\ last.op = "Read"
    /\ prev.op = "Create"
    /\ prev.err = "nil"
    /\ last.in.fault = "none"
    /\ kind = "table"
    /\ Present(env.objects, OtherName)
    /\ d.id = DeclaredName

\* C4: Read with the account present and its query answering clears the
\* identifier and returns nil when no remote object has the declared name
\* (one that only has it as a prefix does not count), and returns nil and
\* leaves the identifier alone when one has.
C4_ReadReconciles ==
    (/\ last.op = "Read"
     /\ HadAccount
     /\ last.in.fault = "none")
    => /\ last.err = "nil"
       /\ IF HadObject THEN d.id = last.d.id ELSE d.id = NoId

\* C5: Delete with the account present and the remote object already
\* absent returns nil.
C5_DeleteIdempotent ==
    (/\ last.op = "Delete"
     /\ HadAccount
     /\ ~HadObject
     /\ last.in.fault = "none")
    => last.err = "nil"

\* C6 as stated: container, table and queue Create, Read, Exists and Delete
\* on a missing account return nil (Exists: false), issue no remote call and
\* leave the identifier empty.
C6_MissingAccountIsNothingToDo ==
    (/\ last.op \in {"Create", "Read", "Exists", "Delete"}
     /\ kind \in {"container", "table", "queue"}
     /\ ~HadAccount
     /\ last.in.fault # "resolve")
    => /\ last.err = "nil"
       /\ last.ret = FALSE
       /\ last.calls = << >>
       /\ d.id = NoId

\* C6, amended: on a missing account Read, Exists and Delete return nil
\* (Exists: false) and issue no remote call; Read and Exists leave the
\* identifier empty, Delete leaves it as it was; Create returns an error,
\* issues no remote call and leaves the identifier empty.
C6_MissingAccountHandling ==
    (/\ last.op \in {"Create", "Read", "Exists", "Delete"}
     /\ kind \in {"container", "table", "queue"}
     /\ ~HadAccount
     /\ last.in.fault # "resolve")
    => /\ last.calls = << >>
       /\ last.ret = FALSE
       /\ env = last.env
       /\ last.op \in {"Read", "Exists"} => last.err = "nil" /\ d.id = NoId
       /\ last.op = "Delete" => last.err = "nil" /\ d = last.d
       /\ last.op = "Create" => last.err = "AccountNotFound" /\ d.id = NoId

C6_Witness ==
    /\ last.op = "Delete"
    /\ kind = "container"
    /\ ~HadAccount
    /\ last.in.fault = "none"
    /\ d.id = DeclaredName

\* C7: the retry around container creation succeeds exactly when an
\* attempt started inside the budget succeeds: the failures the input asks
\* for, followed by a success that still starts inside the budget, give
\* success and Create goes on to set the permissions; otherwise every attempt
\* started inside the budget and failed, no attempt started after the expiry,
\* the wrapper ended once the budget had expired and Create returns an error
\* without setting permissions or the identifier.
C7_RetrySucceedsIffAttemptInBudget ==
    (/\ last.op = "Create"
     /\ kind = "container"
     /\ HadAccount
     /\ ~HadObject
     /\ last.in.fault \notin {"resolve", "query"})
    => LET n == Len(last.attempts)
           succeeded == \E i \in 1..n : last.attempts[i].ok
           inBudget == last.in.failsBefore * last.in.backoff < RetryTimeout
       IN  /\ n >= 1
           /\ \A i \in 1..n : last.attempts[i].start < RetryTimeout
           /\ \A i \in 1..n : last.attempts[i].ok => i = n
           /\ succeeded <=> inBudget
           /\ succeeded => /\ n = last.in.failsBefore + 1
                           /\ Issued("SetPermissions")
                           /\ last.err \notin {"CreateError"}
                           /\ Present(env.objects, DeclaredName)
           /\ ~succeeded => /\ last.err = "CreateError"
                            /\ last.retryEnd >= RetryTimeout
                            /\ ~Issued("SetPermissions")
                            /\ d.id = NoId
                            /\ env.objects = last.env.objects

C7_Witness ==
    /\ last.op = "Create"
    /\ kind = "container"
    /\ Len(last.attempts) = 3
    /\ last.attempts[3].ok
    /\ ~last.attempts[1].ok
    /\ Issued("SetPermissions")
    /\ last.err = "nil"

\* C8: container and queue Exists, the resolver and the query answering,
\* returns true exactly when a remote object has the declared name; returning
\* false it has cleared the identifier, returning true or an error it has
\* left the identifier alone.  Queue Read leaves the local state and returns
\* the error that queue Exists would.
C8_ExistsTellsAndClears ==
    /\ (last.op = "Exists" /\ kind \in {"container", "queue"})
       => /\ last.in.fault = "none"
             => /\ last.err = "nil"
                /\ last.ret <=> (HadAccount /\ HadObject)
          /\ (last.err = "nil" /\ ~last.ret) => d.id = NoId
          /\ (last.err = "nil" /\ last.ret) => d = last.d
          /\ last.err # "nil" => d = last.d /\ ~last.ret
          /\ env = last.env
    /\ (last.op = "Read" /\ kind = "queue")
       => LET e == resourceArmStorageQueueExists(last.d, last.env, last.in)
          IN  /\ d = e.d
              /\ last.err = e.err
              /\ env.objects = e.objects

C8_Witness ==
    /\ last.op = "Exists"
    /\ kind = "queue"
    /\ HadAccount
    /\ ~HadObject
    /\ last.d.id = DeclaredName
    /\ last.err = "nil"
    /\ ~last.ret
    /\ d.id = NoId

\* C10: file Create on an account that already holds a file at the declared
\* remote path checks for it first and returns the import-as-exists error,
\* does not overwrite the remote file and leaves the identifier empty.
C10_FileCreateOnExistingIsImportError ==
    (/\ last.op = "Create"
     /\ kind = "file"
     /\ HadAccount
     /\ HadObject
     /\ last.in.fault = "none")
    => /\ Issued("GetFileStatus")
       /\ last.err = "ImportAsExists"
       /\ env.objects = last.env.objects
       /\ d.id = NoId

(***************************************************************************)
(* Properties of the validators                                            *)
(***************************************************************************)
\* the naming rules of each validator, by the message that reports them
Rules(v) ==
    CASE v = "container" -> {"charset", "length", "leadingHyphen"}
      [] v = "queue"     -> {"charset", "leadingHyphen", "trailingHyphen", "tooLong",
                             "tooShort"}
      [] v = "table"     -> {"reservedWord", "format"}
      [] OTHER           -> {}

\* name val of length n breaks rule r of validator v
Violates(v, r, val, n) ==
    CASE r = "charset" ->
            /\ ~(v = "container" /\ val = RootName)
            /\ \E i \in 1..Len(val) : val[i] \notin Lower \cup Digit \cup {Hyphen}
      [] r = "length"         -> n < MinLength \/ n > MaxLength
      [] r = "tooShort"       -> n < MinLength
      [] r = "tooLong"        -> n > MaxLength
      [] r = "leadingHyphen"  -> val # << >> /\ Head(val) = Hyphen
      [] r = "trailingHyphen" -> val # << >> /\ val[Len(val)] = Hyphen
      [] r = "reservedWord"   -> val = TableWord
      [] r = "format" ->
            \/ n < MinLength
            \/ n > MaxLength
            \/ \E i \in 1..Len(val) : val[i] \notin Lower \cup Upper \cup Digit
            \/ val # << >> /\ Head(val) \in Digit

Reported(r) == Cardinality({i \in 1..Len(errors) : errors[i] = r})

\* the errors are one message for each rule the name breaks, and no other
OneMessagePerBrokenRule(n) ==
    /\ \A r \in Rules(validator) :
          Reported(r) = IF Violates(validator, r, value, n) THEN 1 ELSE 0
    /\ \A i \in 1..Len(errors) : errors[i] \in Rules(validator)

\* C9 as stated: for every string, the empty one too, each validator returns
\* exactly one message per naming rule the string breaks (lengths counted in
\* characters) and none for a rule it keeps.
C9_OneMessagePerViolatedRule ==
    validator # "none" => OneMessagePerBrokenRule(Len(value))

\* C9, amended: for every string that is not empty, each validator returns
\* exactly one message per naming rule the string breaks and none for a rule
\* it keeps, the length rules counting bytes; so a name that breaks one rule
\* gets that rule's message alone and a name that breaks none gets no
\* message, on every call.
C9_OneMessagePerViolatedRuleNonEmpty ==
    (validator # "none" /\ value # << >>) => OneMessagePerBrokenRule(ByteLen(value))

C9_Witness ==
    /\ validator = "queue"
    /\ value = <<"a", "a", Hyphen>>
    /\ errors = <<"trailingHyphen">>

\* C11: no callback changes a declared field: the name, the storage account
\* and the resource group of the ResourceData stay what the configuration
\* declares, also after a table Read on an account that lists the declared
\* table before another one.
C11_DeclaredFieldsImmutable ==
    /\ d.name = Declared.name
    /\ d.storage_account_name = Declared.storage_account_name
    /\ d.resource_group_name = Declared.resource_group_name

\* C12: a Create that returns an error has created nothing: the account
\* holds what it held before the call, so that no object is left behind for
\* the import check of a retried Create to find.
C12_FailedCreateLeavesNoObject ==
    (last.op = "Create" /\ last.err # "nil") => env.objects = last.env.objects

\* the remote create call of the last Create (and, for the container, its
\* set-permissions call) has returned success
CreateCallsSucceeded ==
    /\ last.op = "Create"
    /\ ~Present(last.env.objects, DeclaredName)
    /\ env.objects[DeclaredName] = "managed"
    /\ last.err \notin {"CreateError", "PermissionsError", "OpenError"}
    /\ IF kind = "container"
       THEN /\ Issued("CreateIfNotExists")
            /\ Issued("SetPermissions")
            /\ last.attempts[Len(last.attempts)].ok
       ELSE Issued("Create")

\* what C13 asks of one step of the resource
IdentifierStep ==
    /\ d'.id \in {NoId, DeclaredName}
    /\ (d.id = NoId /\ d'.id # NoId) => CreateCallsSucceeded'
    /\ last'.op = "Create" => d.id = NoId
    /\ last'.op \in {"Read", "Exists"} => d'.id \in {d.id, NoId}
    /\ last'.op = "Delete" => d'.id = d.id

\* C13: the local identifier is always empty or the declared name; it
\* becomes non-empty only in a Create whose remote create call (and, for the
\* container, set-permissions call) has returned success; Read and Exists
\* leave it or clear it, Delete leaves it.
C13_IdentifierLifecycle ==
    /\ d.id \in {NoId, DeclaredName}
    /\ [][IdentifierStep]_vars

C13_Witness ==
    /\ last.op = "Create"
    /\ kind = "container"
    /\ last.d.id = NoId
    /\ d.id = DeclaredName
    /\ CreateCallsSucceeded
    /\ last.err = "nil"

====
